---- MODULE Spec2Model ----
(***************************************************************************)
(* Clustering-based source separation (Magnolia):                          *)
(*   src/src/utils/clustering_utils.py                                     *)
(*   src/magnolia/sandbox/demo/app/model_functions.py                      *)
(*                                                                         *)
(* Numbers.  A finite float64 is modelled in fixed point: the integer n    *)
(* stands for n / SCALE.  Model inputs (embedding vectors, spectrogram     *)
(* cells, waveforms) are finite and are plain fixed-point integers.  The   *)
(* result of a floating-point division, and everything computed from a     *)
(* mask, is a tagged float [cls, val] with cls "fin", "nan" or "inf",      *)
(* because the division is where numpy produces nan and inf.               *)
(*                                                                         *)
(* Arrays are nested sequences in row-major order; shapes are computed     *)
(* from the arrays, never stored beside them.                              *)
(***************************************************************************)
EXTENDS Integers, Sequences, FiniteSets, TLC

VARIABLES fn, args, args_after, locals, ret, prev, np_random

vars == <<fn, args, args_after, locals, ret, prev, np_random>>

(***************************************************************************)
(* Bounds of the model.                                                    *)
(***************************************************************************)
MaxCells == 3

MaxSources == 3

RngStates == 3

(***************************************************************************)
(* Fixed-point floats.                                                     *)
(***************************************************************************)
SCALE == 1000

Fin(n) == [cls |-> "fin", val |-> n]

NaN == [cls |-> "nan", val |-> 0]

Inf(sign) == [cls |-> "inf", val |-> sign]

IsFinite(x) == x.cls = "fin"

Sign(n) == IF n < 0 THEN -1 ELSE 1

AbsInt(n) == IF n < 0 THEN -n ELSE n

\* a / b on finite operands, as numpy divides: x/0 is inf (a warning, no
\* exception) and 0/0 is nan.
FDiv(a, b) ==
  IF b = 0
    THEN IF a = 0 THEN NaN ELSE Inf(Sign(a))
    ELSE Fin((a * SCALE) \div b)

\* (float) * (finite number)
FMul(m, x) ==
  CASE m.cls = "fin" -> Fin((m.val * x) \div SCALE)
    [] m.cls = "nan" -> NaN
    [] m.cls = "inf" -> IF x = 0 THEN NaN ELSE Inf(m.val * Sign(x))

FAdd(a, b) ==
  CASE a.cls = "nan" \/ b.cls = "nan" -> NaN
    [] a.cls = "inf" /\ b.cls = "inf" -> IF a.val = b.val THEN a ELSE NaN
    [] a.cls = "inf" -> a
    [] b.cls = "inf" -> b
    [] OTHER -> Fin(a.val + b.val)

RECURSIVE IsqrtIn(_, _, _)
IsqrtIn(n, lo, hi) ==
  IF lo >= hi THEN lo
  ELSE LET mid == (lo + hi + 1) \div 2
       IN  IF mid * mid <= n THEN IsqrtIn(n, mid, hi) ELSE IsqrtIn(n, lo, mid - 1)

\* floor of the square root of a non-negative integer (by bisection; the
\* upper end keeps mid * mid within 32 bits)
Isqrt(n) == IsqrtIn(n, 0, IF n < 46340 THEN n ELSE 46340)

\* np.sqrt on a finite non-negative fixed-point number
Sqrt(x) == Isqrt(x * SCALE)

\* e^n for the integers the model's logits reach, in fixed point
ExpTable == [n \in -3..3 |->
  CASE n = -3 -> 50 [] n = -2 -> 135 [] n = -1 -> 368 [] n = 0 -> 1000
    [] n = 1 -> 2718 [] n = 2 -> 7389 [] n = 3 -> 20086]

\* np.exp: exact at the integers, linear in between.
Exp(x) ==
  LET n == x \div SCALE
      r == x - n * SCALE
  IN  IF r = 0 THEN ExpTable[n]
      ELSE ExpTable[n] + ((ExpTable[n + 1] - ExpTable[n]) * r) \div SCALE

RECURSIVE SumSeq(_)
SumSeq(s) == IF s = <<>> THEN 0 ELSE s[1] + SumSeq(Tail(s))

RECURSIVE Concat(_)
Concat(ss) == IF ss = <<>> THEN <<>> ELSE ss[1] \o Concat(Tail(ss))

Max2(a, b) == IF a >= b THEN a ELSE b

\* the index into a dimension of size n when broadcasting to index i
Bc(n, i) == IF n = 1 THEN 1 ELSE i

(***************************************************************************)
(* sklearn.cluster.KMeans as get_cluster_masks uses it: k centres seeded   *)
(* from the random state, then Lloyd iterations to a fixed point.          *)
(***************************************************************************)
max_iter == 300

SqDist(u, v) == SumSeq([e \in 1..Len(u) |-> (u[e] - v[e]) * (u[e] - v[e])])

\* squared distance of point x to the nearest of the centres cs
NearestDist(x, cs) ==
  LET ds == {SqDist(x, cs[j]) : j \in 1..Len(cs)}
  IN  CHOOSE d \in ds : \A d2 \in ds : d <= d2

\* index (1-based, lowest on ties) of the centre nearest to x
Nearest(x, cs) ==
  LET ds == [j \in 1..Len(cs) |-> SqDist(x, cs[j])]
  IN  CHOOSE j \in 1..Len(cs) :
        /\ \A j2 \in 1..Len(cs) : ds[j] <= ds[j2]
        /\ \A j2 \in 1..(j - 1) : ds[j2] > ds[j]

\* the sample farthest from the centres chosen so far (lowest index on ties)
Farthest(X, cs) ==
  LET nd == [i \in 1..Len(X) |-> NearestDist(X[i], cs)]
  IN  CHOOSE i \in 1..Len(X) :
        /\ \A i2 \in 1..Len(X) : nd[i] >= nd[i2]
        /\ \A i2 \in 1..(i - 1) : nd[i2] < nd[i]

RECURSIVE InitCentres(_, _, _)
InitCentres(X, k, cs) ==
  IF Len(cs) >= k THEN cs
  ELSE InitCentres(X, k, Append(cs, X[Farthest(X, cs)]))

\* labels_ : the 0-based cluster id of every sample
Labels(X, cs) == [i \in 1..Len(X) |-> Nearest(X[i], cs) - 1]

\* the mean of the samples of cluster j; an empty cluster keeps its centre
Mean(X, labels, cs, j) ==
  LET members == {i \in 1..Len(X) : labels[i] = j - 1}
      n == Cardinality(members)
  IN  IF n = 0 THEN cs[j]
      ELSE [e \in 1..Len(cs[j]) |->
             SumSeq([i \in 1..Len(X) |->
                       IF i \in members THEN X[i][e] ELSE 0]) \div n]

RECURSIVE Lloyd(_, _, _)
Lloyd(X, cs, iter) ==
  LET labels == Labels(X, cs)
      next == [j \in 1..Len(cs) |-> Mean(X, labels, cs, j)]
  IN  IF next = cs \/ iter >= max_iter
        THEN [error |-> "none", labels_ |-> labels, cluster_centers_ |-> cs]
        ELSE Lloyd(X, next, iter + 1)

\* KMeans(n_clusters=k, random_state=rs).fit(X): fewer samples than clusters
\* is a ValueError; duplicate samples are not.
KMeansFit(X, k, rs) ==
  IF Len(X) < k
    THEN [error |-> "ValueError", labels_ |-> <<>>, cluster_centers_ |-> <<>>]
    ELSE Lloyd(X, InitCentres(X, k, <<X[(rs % Len(X)) + 1]>>), 0)

\* The defect of drawing from numpy's global generator (random_state=None):
\* the stream used depends on what earlier calls consumed.
RandomStateGlobal(global) ==
  [state |-> global, global |-> (global + 1) % RngStates]

\* random_state=0: a fresh generator seeded 0; the global one is untouched.
RandomState(global) == [state |-> 0, global |-> global]

(***************************************************************************)
(* Array helpers (numpy).                                                  *)
(***************************************************************************)
Shape2(a) == <<Len(a), Len(a[1])>>

Shape3(a) == <<Len(a), Len(a[1]), Len(a[1][1])>>

Shape4(a) == <<Len(a), Len(a[1]), Len(a[1][1]), Len(a[1][1][1])>>

\* a.reshape((n*m, ...)) of an array whose first two axes are n and m
Flatten2(a) == Concat(a)

\* flat.reshape((T, F, ...)) of a flat sequence of T*F items
Reshape2(flat, T, F) == [t \in 1..T |-> [f \in 1..F |-> flat[(t - 1) * F + f]]]

\* a.T of a 2-D array
Transpose2(a) == [j \in 1..Len(a[1]) |-> [i \in 1..Len(a) |-> a[i][j]]]

\* np.expand_dims(a, axis=0)
ExpandDims0(a) == <<a>>

\* np.expand_dims(a, axis=3) of a 3-D array
ExpandDims3(a) ==
  [i \in 1..Len(a) |-> [j \in 1..Len(a[i]) |->
     [e \in 1..Len(a[i][j]) |-> <<a[i][j][e]>>]]]

\* a * b of two 4-D arrays of finite numbers, with numpy broadcasting
BroadcastMul4(a, b) ==
  LET sa == Shape4(a)
      sb == Shape4(b)
  IN  [i \in 1..Max2(sa[1], sb[1]) |-> [j \in 1..Max2(sa[2], sb[2]) |->
        [e \in 1..Max2(sa[3], sb[3]) |-> [s \in 1..Max2(sa[4], sb[4]) |->
           (a[Bc(sa[1], i)][Bc(sa[2], j)][Bc(sa[3], e)][Bc(sa[4], s)]
            * b[Bc(sb[1], i)][Bc(sb[2], j)][Bc(sb[3], e)][Bc(sb[4], s)])
           \div SCALE]]]]

\* np.sum(a, axis=2) of a 4-D array
SumAxis2(a) ==
  [i \in 1..Len(a) |-> [j \in 1..Len(a[i]) |->
     [s \in 1..Len(a[i][j][1]) |->
        SumSeq([e \in 1..Len(a[i][j]) |-> a[i][j][e][s]])]]]

\* 1/(1 + np.exp(-x))
Sigmoid(x) == FDiv(SCALE, SCALE + Exp(-x))

(***************************************************************************)
(* get_cluster_masks                                                       *)
(***************************************************************************)
\* The defect of reading the last batch element instead of the first.
LastBatch(vectors) == vectors[Len(vectors)]

\* vectors[0]
FirstBatch(vectors) == vectors[1]

\* np.zeros((n, k))
Zeros2(n, k) == [i \in 1..n |-> [s \in 1..k |-> Fin(0)]]

\* The defect of marking the whole column of the label.
SetMaskColumn(masks, i, label) ==
  [r \in 1..Len(masks) |-> [masks[r] EXCEPT ![label + 1] = Fin(SCALE)]]

\* masks[i,label] = 1
SetMask(masks, i, label) == [masks EXCEPT ![i][label + 1] = Fin(SCALE)]

\* for i in range(labels.shape[0]): masks[i, labels[i]] = 1
RECURSIVE MarkLabels(_, _, _)
MarkLabels(masks, labels, i) ==
  IF i > Len(labels) THEN masks
  ELSE MarkLabels(SetMask(masks, i, labels[i]), labels, i + 1)

\* binary_mask: one-hot rows from the cluster ids, reshaped to (T, F, k)
BinaryMasks(kmeans, shape, num_sources) ==
  Reshape2(MarkLabels(Zeros2(shape[2] * shape[3], num_sources),
                      kmeans.labels_, 1),
           shape[2], shape[3])

\* The defect of a sign slip in the logistic function: 1/(1 + np.exp(x)).
SquashFlipped(x) == FDiv(SCALE, SCALE + Exp(x))

\* masks = 1/(1 + np.exp(-masks)), one entry
Squash(x) == Sigmoid(x)

\* soft masks: sigmoid of the dot product of each cell's vector with each
\* cluster centre, computed by broadcasting (T,F,E,1) against (1,1,E,k)
SoftMasks(kmeans, vectors) ==
  LET centers == ExpandDims0(ExpandDims0(Transpose2(kmeans.cluster_centers_)))
      prod == BroadcastMul4(centers, ExpandDims3(FirstBatch(vectors)))
      sums == SumAxis2(prod)
  IN  [t \in 1..Len(sums) |-> [f \in 1..Len(sums[t]) |->
        [s \in 1..Len(sums[t][f]) |-> Squash(sums[t][f][s])]]]

\* The defect of recovering from a failed fit with an all-zero mask array.
RaiseOrReturnSwallowed(kmeans, masks, zeros) ==
  IF kmeans.error # "none" THEN [error |-> "none", masks |-> zeros]
  ELSE [error |-> "none", masks |-> masks]

\* An exception of kmeans.fit leaves get_cluster_masks: nothing is returned.
RaiseOrReturn(kmeans, masks, zeros) ==
  IF kmeans.error # "none" THEN [error |-> kmeans.error, masks |-> <<>>]
  ELSE [error |-> "none", masks |-> masks]

\* get_cluster_masks(vectors, num_sources, binary_mask), run with numpy's
\* global generator in state `global`; the result carries the state the
\* call leaves it in.
GetClusterMasks(vectors, num_sources, binary_mask, global) ==
  LET shape == Shape4(vectors)
      rs == RandomState(global)
      X == Flatten2(FirstBatch(vectors))
      kmeans == KMeansFit(X, num_sources, rs.state)
      zeros == Reshape2(Zeros2(shape[2] * shape[3], num_sources),
                        shape[2], shape[3])
      masks == IF kmeans.error # "none" THEN zeros
               ELSE IF binary_mask
                 THEN BinaryMasks(kmeans, shape, num_sources)
                 ELSE SoftMasks(kmeans, vectors)
      out == RaiseOrReturn(kmeans, masks, zeros)
  IN  [error |-> out.error, masks |-> out.masks, global |-> rs.global,
       kmeans |-> kmeans]

(***************************************************************************)
(* apply_masks                                                             *)
(***************************************************************************)
\* masks[:,:,i]
MaskSlice(masks, i) ==
  [t \in 1..Len(masks) |-> [f \in 1..Len(masks[t]) |-> masks[t][f][i]]]

\* (real float array) * (complex array), cell by cell
MulSpec(mask, spectrogram) ==
  [t \in 1..Len(spectrogram) |-> [f \in 1..Len(spectrogram[t]) |->
     [re |-> FMul(mask[t][f], spectrogram[t][f].re),
      im |-> FMul(mask[t][f], spectrogram[t][f].im)]]]

\* The defect of listing the sources last to first.
SourceOrderReversed(num_sources) == [i \in 1..num_sources |-> num_sources + 1 - i]

\* range(num_sources), as 1-based indices
SourceOrder(num_sources) == [i \in 1..num_sources |-> i]

\* The defect of ignoring the loop index: masks[:,:,0]*spectrogram.
MaskedSpecFirst(masks, i, spectrogram) == MulSpec(MaskSlice(masks, 1), spectrogram)

\* masks[:,:,i]*spectrogram
MaskedSpec(masks, i, spectrogram) == MulSpec(MaskSlice(masks, i), spectrogram)

\* apply_masks(spectrogram, masks): the list of masked spectrograms, and the
\* two argument arrays as the call leaves them (it writes to neither).
ApplyMasks(spectrogram, masks) ==
  LET num_sources == Len(masks[1][1])
      order == SourceOrder(num_sources)
  IN  [masked_specs |-> [n \in 1..num_sources |->
                           MaskedSpec(masks, order[n], spectrogram)],
       spectrogram |-> spectrogram,
       masks |-> masks]

(***************************************************************************)
(* Feature normalisation: featurize_spectrogram and preprocess_signal      *)
(***************************************************************************)
PI == 3142

\* np.abs of a complex number
AbsComplex(z) == Isqrt(z.re * z.re + z.im * z.im)

\* np.angle of a complex number on an axis (the spectrogram cells modelled)
Angle(z) ==
  CASE z.im = 0 /\ z.re >= 0 -> 0
    [] z.im = 0 /\ z.re < 0 -> PI
    [] z.re = 0 /\ z.im > 0 -> PI \div 2
    [] z.re = 0 /\ z.im < 0 -> -(PI \div 2)

\* np.abs, np.angle and np.sqrt of a 2-D array, cell by cell
AbsArray(a) == [t \in 1..Len(a) |-> [f \in 1..Len(a[t]) |-> AbsComplex(a[t][f])]]

AngleArray(a) == [t \in 1..Len(a) |-> [f \in 1..Len(a[t]) |-> Angle(a[t][f])]]

SqrtArray(a) == [t \in 1..Len(a) |-> [f \in 1..Len(a[t]) |-> Sqrt(a[t][f])]]

Cells(a) == {a[t][f] : t \in 1..Len(a), f \in 1..Len(a[1])}

\* a.max() and a.min() of a 2-D array of finite numbers
ArrayMax(a) == CHOOSE m \in Cells(a) : \A x \in Cells(a) : x <= m

ArrayMin(a) == CHOOSE m \in Cells(a) : \A x \in Cells(a) : m <= x

\* np.unwrap of one row: the correction to add to p[i], accumulated
RECURSIVE UnwrapCorrection(_, _)
UnwrapCorrection(p, i) ==
  IF i <= 1 THEN 0
  ELSE LET dd == p[i] - p[i - 1]
           m == ((dd + PI) % (2 * PI)) - PI
           ddmod == IF m = -PI /\ dd > 0 THEN PI ELSE m
           correct == IF AbsInt(dd) < PI THEN 0 ELSE ddmod - dd
       IN  correct + UnwrapCorrection(p, i - 1)

\* np.unwrap along the last axis
Unwrap(a) ==
  [t \in 1..Len(a) |-> [f \in 1..Len(a[t]) |-> a[t][f] + UnwrapCorrection(a[t], f)]]

\* (X - min)/(max - min), cell by cell
MinMaxScale(X, lo, hi) ==
  [t \in 1..Len(X) |-> [f \in 1..Len(X[t]) |-> FDiv(X[t][f] - lo, hi - lo)]]

\* featurize_spectrogram(spectrogram)
FeaturizeSpectrogram(spectrogram) ==
  LET mag == AbsArray(spectrogram)
      phases == Unwrap(AngleArray(spectrogram))
      X_sqrt == SqrtArray(mag)
      X_max == ArrayMax(X_sqrt)
      X_min == ArrayMin(X_sqrt)
  IN  [X_input |-> MinMaxScale(X_sqrt, X_min, X_max), phases |-> phases,
       X_max |-> X_max, X_min |-> X_min, X_sqrt |-> X_sqrt]

\* preprocess_signal(signal, sample_rate), given the spectrogram that
\* make_stft_features computed from the signal
PreprocessSignal(spectrogram) ==
  LET mag_spec == AbsArray(spectrogram)
      X_sqrt == SqrtArray(mag_spec)
      m == ArrayMin(X_sqrt)
      M == ArrayMax(X_sqrt)
  IN  [spectrogram |-> spectrogram, X_in |-> MinMaxScale(X_sqrt, m, M),
       X_sqrt |-> X_sqrt]

(***************************************************************************)
(* separate_sources (the direct mask-prediction demo path)                 *)
(***************************************************************************)
\* np.exp(phases*1.0j) for a phase that is a multiple of pi/2
CosSin(phase) ==
  LET q == (phase % (2 * PI)) \div (PI \div 2)
  IN  CASE q = 0 -> [re |-> SCALE, im |-> 0]
        [] q = 1 -> [re |-> 0, im |-> SCALE]
        [] q = 2 -> [re |-> -SCALE, im |-> 0]
        [] q = 3 -> [re |-> 0, im |-> -SCALE]

FixMul(a, b) == (a * b) \div SCALE

Mean1(w) == SumSeq(w) \div Len(w)

\* waveform.std(): the root of the mean squared deviation
Std1(w) ==
  LET mu == Mean1(w)
  IN  Sqrt(SumSeq([i \in 1..Len(w) |-> FixMul(w[i] - mu, w[i] - mu)]) \div Len(w))

\* (waveform - waveform.mean())/waveform.std()
Standardize(w) ==
  LET mu == Mean1(w)
      sd == Std1(w)
  IN  [i \in 1..Len(w) |-> FDiv(w[i] - mu, sd)]

\* y_output*(X_max - X_min) + X_min, squared, then given the input's phases:
\* the complex spectrogram of every predicted source
ComplexSpectrograms(feat, y_output) ==
  [i \in 1..Len(y_output[1][1][1]) |->
    [t \in 1..Len(feat.phases) |-> [f \in 1..Len(feat.phases[t]) |->
      LET y == FixMul(y_output[1][t][f][i], feat.X_max - feat.X_min) + feat.X_min
          y2 == FixMul(y, y)
          e == CosSin(feat.phases[t][f])
      IN  [re |-> FixMul(y2, e.re), im |-> FixMul(y2, e.im)]]]]

\* separate_sources, given the spectrogram of the file's signal, the model's
\* prediction and, per source, the waveform that istft and undo_preemphasis
\* reconstruct from the source's complex spectrogram
SeparateSources(spectrogram, y_output, waveforms) ==
  LET feat == FeaturizeSpectrogram(spectrogram)
  IN  [X_input |-> feat.X_input,
       complex_spectrograms |-> ComplexSpectrograms(feat, y_output),
       waveforms |-> waveforms,
       sources |-> [i \in 1..Len(waveforms) |-> Standardize(waveforms[i])]]

(***************************************************************************)
(* l41_clustering_separate                                                 *)
(***************************************************************************)
\* a.transpose(0, 2, 1) of a 3-D array
Transpose021(a) ==
  [n \in 1..Len(a) |-> [j \in 1..Len(a[n][1]) |-> [i \in 1..Len(a[n]) |->
     a[n][i][j]]]]

\* The defect of returning the stacked spectrograms without the transpose.
FinalTransposeMissing(sources) == sources

\* sources.transpose(0, 2, 1)
FinalTranspose(sources) == Transpose021(sources)

\* l41_clustering_separate(spec, model, num_sources, binary_mask), given the
\* vectors model.get_vectors returns for the preprocessed batch
L41ClusteringSeparate(spec, vectors, num_sources, binary_mask, global) ==
  LET got == GetClusterMasks(vectors, num_sources, binary_mask, global)
  IN  IF got.error # "none"
        THEN [error |-> got.error, sources |-> <<>>, global |-> got.global,
              masks |-> <<>>]
        ELSE LET masked_specs ==
                   ApplyMasks(Transpose2(spec[1]), got.masks).masked_specs
             IN  [error |-> "none", sources |-> FinalTranspose(masked_specs),
                  global |-> got.global, masks |-> got.masks]

(***************************************************************************)
(* clustering_separate                                                     *)
(***************************************************************************)
\* clustering_separate up to apply_masks, given the spectrogram
\* make_stft_features computes from the signal and the vectors
\* model.get_vectors returns for the scaled input
ClusteringMaskedSpecs(spectrogram, vectors, num_sources, binary_mask, global) ==
  LET pre == PreprocessSignal(spectrogram)
      got == GetClusterMasks(vectors, num_sources, binary_mask, global)
  IN  IF got.error # "none"
        THEN [error |-> got.error, masked_specs |-> <<>>, global |-> got.global,
              X_in |-> pre.X_in]
        ELSE [error |-> "none",
              masked_specs |-> ApplyMasks(pre.spectrogram, got.masks).masked_specs,
              global |-> got.global, X_in |-> pre.X_in]

\* the rest of clustering_separate: one waveform per source, stacked; the
\* waveforms are what istft and undo_preemphasis give the masked spectrograms
ClusteringSeparate(masked, num_sources, waveforms) ==
  IF masked.error # "none" THEN [error |-> masked.error, sources |-> <<>>]
  ELSE [error |-> "none", sources |-> [i \in 1..num_sources |-> waveforms[i]]]

(***************************************************************************)
(* Inputs.                                                                 *)
(***************************************************************************)
\* embedding vectors a model may give a cell
EmbeddingValues == {<<SCALE, 0>>, <<0, SCALE>>, <<-SCALE, 0>>}

TwoEmbeddingValues == {<<SCALE, 0>>, <<0, SCALE>>}

\* the values the other batch elements are filled with
FillValues == {<<0, 0>>, <<SCALE, SCALE>>}

\* complex spectrogram cells: silence, and two non-zero values on the axes
SpecValues == {[re |-> 0, im |-> 0], [re |-> 0, im |-> -SCALE],
               [re |-> -4 * SCALE, im |-> 0]}

LoudValues == {[re |-> 0, im |-> 0], [re |-> -4 * SCALE, im |-> 0]}

\* silence and a cell off the axes, where no phase is taken
MixValues == {[re |-> 0, im |-> 0], [re |-> 3 * SCALE, im |-> -4 * SCALE]}

Shapes == {sh \in (1..MaxCells) \X (1..MaxCells) : sh[1] * sh[2] <= MaxCells}

\* the sequences of length n over Values
RECURSIVE Tuples(_, _)
Tuples(n, Values) ==
  IF n = 0 THEN {<<>>}
  ELSE {Append(t, v) : t \in Tuples(n - 1, Values), v \in Values}

\* the arrays of shape sh over Values
Arrays2(sh, Values) == Tuples(sh[1], Tuples(sh[2], Values))

Filled(sh, v) == [t \in 1..sh[1] |-> [f \in 1..sh[2] |-> v]]

RECURSIVE BatchTails(_, _)
BatchTails(sh, n) ==
  IF n = 0 THEN {<<>>}
  ELSE {<<Filled(sh, v)>> \o rest : v \in FillValues, rest \in BatchTails(sh, n - 1)}

\* the batch elements after the first, for batches of one and of two
OtherBatches(sh) == BatchTails(sh, 0) \cup BatchTails(sh, 1)

\* one-hot rows and one soft row over n sources
MaskRows(n) ==
  {[s \in 1..n |-> IF s = hot THEN Fin(SCALE) ELSE Fin(0)] : hot \in 1..n}
    \cup {[s \in 1..n |-> Fin(SCALE \div 2)]}

\* mask arrays of shape sh over n sources: a row per cell
MaskArrays(sh, n) == Arrays2(sh, MaskRows(n))

\* waveforms a reconstruction may give: silence, a constant, a varying one
Waveforms == {<<0, 0>>, <<SCALE, SCALE>>, <<SCALE, -SCALE>>}

IsZeroSpec(a) == \A t \in 1..Len(a) : \A f \in 1..Len(a[t]) :
  a[t][f].re = 0 /\ a[t][f].im = 0

IsZeroMaskedSpec(a) == \A t \in 1..Len(a) : \A f \in 1..Len(a[t]) :
  a[t][f].re = Fin(0) /\ a[t][f].im = Fin(0)

\* the waveforms istft and undo_preemphasis may give n sources: both are
\* linear, so a source whose spectrogram is all zero gets silence
Reconstructions(n, silent, Sounds) ==
  {w \in Tuples(n, Sounds) : \A i \in 1..n : silent[i] => w[i] = <<0, 0>>}

(***************************************************************************)
(* The state machine: one action per function call.  fn names the call     *)
(* that returned last, args its arguments as passed, args_after the same   *)
(* objects after the call, locals the call's local variables, ret what it  *)
(* returned.  prev is the preceding call of get_cluster_masks when the     *)
(* current one repeats its first batch element, num_sources and            *)
(* binary_mask.  np_random is the state of numpy's global generator.       *)
(***************************************************************************)
NoCall == [fn |-> "none"]

Init ==
  /\ fn = "idle"
  /\ args = <<>>
  /\ args_after = <<>>
  /\ locals = <<>>
  /\ ret = <<>>
  /\ prev = NoCall
  /\ np_random = 0

\* In the actions a call's result is bound by \E over a one-element set, so
\* that it is computed once per call.
CallGetClusterMasks(vectors, num_sources, binary_mask, before) ==
  \E got \in {GetClusterMasks(vectors, num_sources, binary_mask, np_random)} :
    /\ fn' = "get_cluster_masks"
    /\ args' = [vectors |-> vectors, num_sources |-> num_sources,
                binary_mask |-> binary_mask]
    /\ args_after' = args'
    /\ locals' = [kmeans |-> got.kmeans]
    /\ ret' = [error |-> got.error, masks |-> got.masks]
    /\ prev' = before
    /\ np_random' = got.global

get_cluster_masks ==
  /\ fn = "idle"
  /\ \E sh \in Shapes : \E v0 \in Arrays2(sh, EmbeddingValues) :
     \E rest \in OtherBatches(sh) :
     \E num_sources \in 1..MaxSources : \E binary_mask \in BOOLEAN :
       CallGetClusterMasks(<<v0>> \o rest, num_sources, binary_mask, NoCall)

\* a second call with the same first batch element, num_sources and
\* binary_mask, and any other batch elements of the same number and shape
get_cluster_masks_again ==
  /\ fn = "get_cluster_masks"
  /\ prev = NoCall
  /\ \E rest \in BatchTails(Shape2(args.vectors[1]), Len(args.vectors) - 1) :
       CallGetClusterMasks(<<args.vectors[1]>> \o rest, args.num_sources,
                           args.binary_mask,
                           [fn |-> fn, args |-> args, ret |-> ret])

apply_masks ==
  /\ fn = "idle"
  /\ \E sh \in Shapes : \E n \in 1..MaxSources :
     \E spectrogram \in Arrays2(sh, MixValues) :
     \E masks \in MaskArrays(sh, n) :
     \E got \in {ApplyMasks(spectrogram, masks)} :
       /\ fn' = "apply_masks"
       /\ args' = [spectrogram |-> spectrogram, masks |-> masks]
       /\ args_after' = [spectrogram |-> got.spectrogram, masks |-> got.masks]
       /\ locals' = <<>>
       /\ ret' = got.masked_specs
       /\ UNCHANGED <<prev, np_random>>

featurize_spectrogram ==
  /\ fn = "idle"
  /\ \E sh \in Shapes : \E spectrogram \in Arrays2(sh, SpecValues) :
     \E got \in {FeaturizeSpectrogram(spectrogram)} :
       /\ fn' = "featurize_spectrogram"
       /\ args' = [spectrogram |-> spectrogram]
       /\ args_after' = args'
       /\ locals' = [X_sqrt |-> got.X_sqrt]
       /\ ret' = [X_input |-> got.X_input, phases |-> got.phases,
                  X_max |-> got.X_max, X_min |-> got.X_min]
       /\ UNCHANGED <<prev, np_random>>

\* the signal enters through the spectrogram make_stft_features gives it
preprocess_signal ==
  /\ fn = "idle"
  /\ \E sh \in Shapes : \E spectrogram \in Arrays2(sh, SpecValues) :
     \E got \in {PreprocessSignal(spectrogram)} :
       /\ fn' = "preprocess_signal"
       /\ args' = [spectrogram |-> spectrogram]
       /\ args_after' = args'
       /\ locals' = [X_sqrt |-> got.X_sqrt]
       /\ ret' = [spectrogram |-> got.spectrogram, X_in |-> got.X_in]
       /\ UNCHANGED <<prev, np_random>>

\* the file's signal enters through its spectrogram, the model through its
\* prediction (one level per source), and istft with undo_preemphasis through
\* the waveform they give each source: silence for an all-zero spectrogram
separate_sources ==
  /\ fn = "idle"
  /\ \E sh \in Shapes : \E n \in 1..MaxSources :
     \E spectrogram \in Arrays2(sh, LoudValues) :
     \E level \in Tuples(n, {0, SCALE}) :
     \E y_output \in {<<Filled(sh, level)>>} :
     \E cs \in {ComplexSpectrograms(FeaturizeSpectrogram(spectrogram), y_output)} :
     \E waveforms \in Reconstructions(n, [i \in 1..n |-> IsZeroSpec(cs[i])],
                                        Waveforms) :
     \E got \in {SeparateSources(spectrogram, y_output, waveforms)} :
       /\ fn' = "separate_sources"
       /\ args' = [spectrogram |-> spectrogram, y_output |-> y_output]
       /\ args_after' = args'
       /\ locals' = [waveforms |-> got.waveforms,
                     complex_spectrograms |-> got.complex_spectrograms]
       /\ ret' = got.sources
       /\ UNCHANGED <<prev, np_random>>

\* the signal enters through its spectrogram (silence, or one value in
\* every cell), the model through the vectors (1, T, F, E) it returns, istft
\* and undo_preemphasis through the waveforms
clustering_separate ==
  /\ fn = "idle"
  /\ \E sh \in Shapes : \E v0 \in Arrays2(sh, TwoEmbeddingValues) :
     \E spectrogram \in {Filled(sh, z) : z \in MixValues} :
     \E num_sources \in 1..MaxSources : \E binary_mask \in BOOLEAN :
     \E masked \in {ClusteringMaskedSpecs(spectrogram, <<v0>>, num_sources,
                                          binary_mask, np_random)} :
     \E waveforms \in Reconstructions(num_sources,
                        [i \in 1..num_sources |->
                           masked.error = "none" =>
                             IsZeroMaskedSpec(masked.masked_specs[i])],
                        {<<0, 0>>, <<SCALE, -SCALE>>}) :
     \E got \in {ClusteringSeparate(masked, num_sources, waveforms)} :
       /\ fn' = "clustering_separate"
       /\ args' = [spectrogram |-> spectrogram, vectors |-> <<v0>>,
                   num_sources |-> num_sources, binary_mask |-> binary_mask]
       /\ args_after' = args'
       /\ locals' = [masked_specs |-> masked.masked_specs, X_in |-> masked.X_in]
       /\ ret' = got
       /\ prev' = prev
       /\ np_random' = masked.global

\* the model enters through the vectors get_vectors returns for the batch:
\* (1, T, F, E) for a spectrogram of shape (1, F, T)
l41_clustering_separate ==
  /\ fn = "idle"
  /\ \E sh \in Shapes : \E v0 \in Arrays2(sh, TwoEmbeddingValues) :
     \E s0 \in Arrays2(<<sh[2], sh[1]>>, MixValues) :
     \E num_sources \in 1..MaxSources : \E binary_mask \in BOOLEAN :
     \E got \in {L41ClusteringSeparate(<<s0>>, <<v0>>, num_sources,
                                       binary_mask, np_random)} :
       /\ fn' = "l41_clustering_separate"
       /\ args' = [spec |-> <<s0>>, vectors |-> <<v0>>,
                   num_sources |-> num_sources, binary_mask |-> binary_mask]
       /\ args_after' = args'
       /\ locals' = [masks |-> got.masks]
       /\ ret' = [error |-> got.error, sources |-> got.sources]
       /\ prev' = prev
       /\ np_random' = got.global

\* the caller drops the results: every entity is transient
return ==
  /\ fn # "idle"
  /\ fn' = "idle"
  /\ args' = <<>>
  /\ args_after' = <<>>
  /\ locals' = <<>>
  /\ ret' = <<>>
  /\ prev' = NoCall
  /\ np_random' = np_random

Next ==
  \/ get_cluster_masks
  \/ get_cluster_masks_again
  \/ apply_masks
  \/ featurize_spectrogram
  \/ preprocess_signal
  \/ separate_sources
  \/ l41_clustering_separate
  \/ clustering_separate
  \/ return

Spec == Init /\ [][Next]_vars

(***************************************************************************)
(* Properties.                                                             *)
(***************************************************************************)
IsGetClusterMasks == fn = "get_cluster_masks"

\* the (Time, Frequency) shape of the first batch element of a call's vectors
TimeFreq(a) == <<Len(a.vectors[1]), Len(a.vectors[1][1])>>

CellsOf(sh) == (1..sh[1]) \X (1..sh[2])

OneHot(row) ==
  /\ \A s \in 1..Len(row) : row[s] \in {Fin(0), Fin(SCALE)}
  /\ Cardinality({s \in 1..Len(row) : row[s] = Fin(SCALE)}) = 1
  /\ SumSeq([s \in 1..Len(row) |-> row[s].val]) = SCALE

\* a (T, F, n) mask array that partitions the T-F plane
IsPartition(masks) ==
  \A t \in 1..Len(masks) : \A f \in 1..Len(masks[t]) : OneHot(masks[t][f])

\* C1: with binary_mask=True a successful get_cluster_masks returns a
\* (T, F, num_sources) array of zeros and ones with exactly one 1 in every
\* (time, frequency) cell, so every cell sums to 1 across the sources.
HardMasksPartition ==
  (IsGetClusterMasks /\ args.binary_mask /\ ret.error = "none") =>
    /\ Shape3(ret.masks) = <<TimeFreq(args)[1], TimeFreq(args)[2], args.num_sources>>
    /\ IsPartition(ret.masks)

\* a hard mask array in which two cells belong to different sources
HardMasksPartitionWitness ==
  /\ IsGetClusterMasks /\ args.binary_mask /\ ret.error = "none"
  /\ args.num_sources >= 2
  /\ \E c \in CellsOf(TimeFreq(args)) : \E d \in CellsOf(TimeFreq(args)) :
       ret.masks[c[1]][c[2]] # ret.masks[d[1]][d[2]]

RECURSIVE SumFloats(_)
SumFloats(s) == IF Len(s) = 1 THEN s[1] ELSE FAdd(s[1], SumFloats(Tail(s)))

\* C2: for a hard mask array that partitions the T-F plane, the spectrograms
\* apply_masks returns add up, cell by cell, to the input spectrogram.
MaskedSpecsSumToSpectrogram ==
  (fn = "apply_masks" /\ IsPartition(args.masks)) =>
    \A c \in CellsOf(Shape2(args.spectrogram)) :
      /\ SumFloats([i \in 1..Len(ret) |-> ret[i][c[1]][c[2]].re])
           = Fin(args.spectrogram[c[1]][c[2]].re)
      /\ SumFloats([i \in 1..Len(ret) |-> ret[i][c[1]][c[2]].im])
           = Fin(args.spectrogram[c[1]][c[2]].im)

\* a partition over several sources, two of them used, of a spectrogram
\* with a non-zero cell that is not given to the first source
MaskedSpecsSumWitness ==
  /\ fn = "apply_masks" /\ IsPartition(args.masks)
  /\ Len(ret) >= 2
  /\ \E c \in CellsOf(Shape2(args.spectrogram)) :
       /\ args.spectrogram[c[1]][c[2]].re # 0
       /\ args.masks[c[1]][c[2]][1] = Fin(0)
  /\ \E c \in CellsOf(Shape2(args.spectrogram)) :
       args.masks[c[1]][c[2]][1] = Fin(SCALE)

\* C3: apply_masks returns exactly n spectrograms for a (T, F, n) mask array,
\* the i-th being masks[:,:,i] * spectrogram cell by cell, in source order,
\* and leaves both arguments as they were.
ApplyMasksContract ==
  fn = "apply_masks" =>
    /\ Len(ret) = Len(args.masks[1][1])
    /\ \A i \in 1..Len(ret) :
         /\ Shape2(ret[i]) = Shape2(args.spectrogram)
         /\ \A c \in CellsOf(Shape2(args.spectrogram)) :
              ret[i][c[1]][c[2]] =
                [re |-> FMul(args.masks[c[1]][c[2]][i], args.spectrogram[c[1]][c[2]].re),
                 im |-> FMul(args.masks[c[1]][c[2]][i], args.spectrogram[c[1]][c[2]].im)]
    /\ args_after = args

\* three sources whose masked spectrograms all differ
ApplyMasksContractWitness ==
  /\ fn = "apply_masks"
  /\ Len(ret) = 3
  /\ ret[1] # ret[2] /\ ret[2] # ret[3] /\ ret[1] # ret[3]

AllFinite2(a) == \A t \in 1..Len(a) : \A f \in 1..Len(a[t]) : IsFinite(a[t][f])

\* C4: when the square-rooted magnitude has max == min (an all-zero
\* spectrogram in particular), featurize_spectrogram and preprocess_signal
\* guard the division and return a normalised array without nan or inf.
NormalizationGuardsEmptyRange ==
  /\ (fn = "featurize_spectrogram"
        /\ ArrayMax(locals.X_sqrt) = ArrayMin(locals.X_sqrt))
       => AllFinite2(ret.X_input)
  /\ (fn = "preprocess_signal"
        /\ ArrayMax(locals.X_sqrt) = ArrayMin(locals.X_sqrt))
       => AllFinite2(ret.X_in)

\* C5: in separate_sources a reconstructed waveform whose standard deviation
\* is zero is not divided by it: the normalisation is skipped, no undefined
\* value results, and a zero waveform comes out as a zero waveform.
ZeroStdSkipsNormalization ==
  fn = "separate_sources" =>
    \A i \in 1..Len(ret) :
      Std1(locals.waveforms[i]) = 0 =>
        /\ \A j \in 1..Len(ret[i]) : IsFinite(ret[i][j])
        /\ IsZeroSpec(locals.complex_spectrograms[i]) =>
             \A j \in 1..Len(ret[i]) : ret[i][j] = Fin(0)

IsL41 == fn = "l41_clustering_separate"

\* C6 as claimed: for a spectrogram input of shape (1, F, T),
\* l41_clustering_separate returns an array of shape (num_sources, T, F).
L41ShapeSourcesTimeFrequency ==
  (IsL41 /\ ret.error = "none") =>
    Shape3(ret.sources) =
      <<args.num_sources, Len(args.spec[1][1]), Len(args.spec[1])>>

\* C6 as amended: for a spectrogram input of shape (1, F, T),
\* l41_clustering_separate returns an array of shape (num_sources, F, T),
\* the shape of the input spectrogram per source.
L41ShapeSourcesFrequencyTime ==
  (IsL41 /\ ret.error = "none") =>
    Shape3(ret.sources) =
      <<args.num_sources, Len(args.spec[1]), Len(args.spec[1][1])>>

\* a successful separation of a spectrogram with F # T
L41ShapeWitness ==
  /\ IsL41 /\ ret.error = "none"
  /\ Len(args.spec[1]) # Len(args.spec[1][1])
  /\ args.num_sources >= 2

\* the embedding vectors of the first batch element, as a set
DistinctVectors(a) ==
  {a.vectors[1][c[1]][c[2]] : c \in CellsOf(TimeFreq(a))}

IsOrchestrator == fn \in {"l41_clustering_separate", "clustering_separate"}

NothingReturned ==
  /\ ret.error # "none"
  /\ IsGetClusterMasks => ret.masks = <<>>
  /\ IsOrchestrator => ret.sources = <<>>

\* C7 as claimed: whenever num_sources exceeds the number of distinct
\* embedding vectors of the first batch element, get_cluster_masks fails, the
\* error reaches the caller (also through the orchestrator), and no mask
\* array is returned.
FailsBeyondDistinctVectors ==
  ((IsGetClusterMasks \/ IsOrchestrator)
     /\ args.num_sources > Cardinality(DistinctVectors(args)))
    => NothingReturned

\* C7 as amended: whenever num_sources exceeds the number of embedding
\* vectors (time-frequency cells) of the first batch element,
\* get_cluster_masks fails, the error reaches the caller (also through the
\* orchestrator), and no mask array is returned.
FailsBeyondSamples ==
  ((IsGetClusterMasks \/ IsOrchestrator)
     /\ args.num_sources > TimeFreq(args)[1] * TimeFreq(args)[2])
    => NothingReturned

\* a call asking for more sources than there are cells, which failed
FailsBeyondSamplesWitness ==
  /\ IsGetClusterMasks
  /\ args.num_sources > TimeFreq(args)[1] * TimeFreq(args)[2]
  /\ TimeFreq(args)[1] * TimeFreq(args)[2] >= 2
  /\ ret.error = "ValueError"

IsRepeat == IsGetClusterMasks /\ prev.fn = "get_cluster_masks"

\* C8: two calls of get_cluster_masks with identical vectors, num_sources and
\* binary_mask return identical results: nothing carried over from the first
\* call reaches the second.
RepeatedCallSameMasks ==
  (IsRepeat /\ prev.args = args) => ret = prev.ret

\* a repeated successful call on vectors that k-means splits in two clusters
RepeatedCallWitness ==
  /\ IsRepeat /\ prev.args = args
  /\ ret.error = "none"
  /\ args.num_sources >= 2
  /\ Cardinality(DistinctVectors(args)) >= 2

\* C9: two calls whose embedding arrays agree on batch element 0 and have the
\* same shape, but differ in the other batch elements, return equal masks, in
\* hard-mask and in soft-mask mode.
OnlyFirstBatchMatters ==
  (/\ IsRepeat
   /\ prev.args.vectors # args.vectors
   /\ prev.args.vectors[1] = args.vectors[1]
   /\ Shape4(prev.args.vectors) = Shape4(args.vectors)
   /\ prev.args.num_sources = args.num_sources
   /\ prev.args.binary_mask = args.binary_mask)
    => ret = prev.ret

\* two successful soft-mask calls that differ in the second batch element
OnlyFirstBatchWitness ==
  /\ IsRepeat
  /\ Len(args.vectors) = 2
  /\ prev.args.vectors[1] = args.vectors[1]
  /\ prev.args.vectors[2] # args.vectors[2]
  /\ ~args.binary_mask
  /\ ret.error = "none"
  /\ args.num_sources >= 2

\* the dot product of a cell's vector with a cluster centre
Dot(u, c) == SumSeq([e \in 1..Len(u) |-> (u[e] * c[e]) \div SCALE])

\* C10: with binary_mask=False a successful get_cluster_masks returns a
\* (T, F, num_sources) array whose entry (t, f, s) is the logistic sigmoid of
\* the dot product of the vector of cell (t, f) with the centre of cluster s;
\* every entry lies in [0, 1].
SoftMasksAreSigmoidOfDot ==
  (IsGetClusterMasks /\ ~args.binary_mask /\ ret.error = "none") =>
    /\ Shape3(ret.masks) = <<TimeFreq(args)[1], TimeFreq(args)[2], args.num_sources>>
    /\ \A c \in CellsOf(TimeFreq(args)) : \A s \in 1..args.num_sources :
         LET m == ret.masks[c[1]][c[2]][s]
             dot == Dot(args.vectors[1][c[1]][c[2]],
                        locals.kmeans.cluster_centers_[s])
         IN  /\ m = FDiv(SCALE, SCALE + Exp(-dot))
             /\ IsFinite(m)
             /\ 0 <= m.val /\ m.val <= SCALE

\* a soft mask array with a cell whose entries do not sum to 1, and with
\* entries on both sides of 1/2
SoftMasksWitness ==
  /\ IsGetClusterMasks /\ ~args.binary_mask /\ ret.error = "none"
  /\ args.num_sources >= 2
  /\ \E c \in CellsOf(TimeFreq(args)) :
       /\ SumSeq([s \in 1..args.num_sources |-> ret.masks[c[1]][c[2]][s].val]) # SCALE
       /\ \E s \in 1..args.num_sources : ret.masks[c[1]][c[2]][s].val > SCALE \div 2
       /\ \E s \in 1..args.num_sources : ret.masks[c[1]][c[2]][s].val < SCALE \div 2

====
